---- MODULE Spec2Model ----
(***************************************************************************)
(* A model of ess.reduce.streaming: the accumulators (EternalAccumulator, *)
(* RollingAccumulator) over a heap of Python objects, and StreamProcessor *)
(* over a small sciline workflow graph.                                   *)
(***************************************************************************)
EXTENDS Integers, Sequences, FiniteSets, TLC

VARIABLES
    \* ---- accumulators over a heap of objects (streaming.py:38-131) ----
    heap,       \* Seq of objects; an object id is its index; [binned, c]
    held,       \* ids of the objects the caller holds a reference to
    returned,   \* ids of the objects handed out by the value properties
    pushed,     \* ids of the objects the caller passed to some push
    kind,       \* the accumulator's class: "eternal" or "rolling"
    eValue,     \* EternalAccumulator._value: NoneId or an object id
    rValues,    \* RollingAccumulator._values: Seq of object ids
    window,     \* RollingAccumulator._window
    log,        \* contents (after preprocess, at push time) of the pushes so far
    nMut,       \* number of in-place mutations done by the caller
    \* ---- StreamProcessor over a workflow graph (streaming.py:134-320) ----
    pc,                        \* "idle", "new" (not yet constructed), "ready" or "raised"
    dynamic_keys,              \* the dynamic_keys argument
    target_keys,               \* the target_keys argument
    allow_bypass,              \* the allow_bypass argument
    accumulators,              \* _accumulators: key -> accumulator state
    accumulator_dependencies,  \* _accumulator_dependencies: key -> set of keys
    process_chunk_workflow,    \* _process_chunk_workflow: key -> node
    finalize_workflow,         \* _finalize_workflow: key -> node
    evalCtor,                  \* provider key -> evaluations by __init__
    evalAcc,                   \* provider key -> evaluations by accumulate
    evalFin,                   \* provider key -> evaluations by finalize
    last,                      \* the last call: its name, argument and outcome
    nAcc,                      \* number of accumulate calls that passed the argument checks
    nFin,                      \* number of finalize calls
    \* ---- time-of-arrival unwrapping (time_of_flight/toa_to_tof.py) ----
    tof,                       \* the pipeline: its parameters and computed values
    \* ---- lookup table builder (time_of_flight/lookup_table.py) ----
    lut,                       \* compute_tof_lookup_table: arguments, locals, result
    \* ---- file download (scicat.py) ----
    locks,                     \* _locks: the Lock stored under the key, if any
    lock_owner,                \* the Lock objects made: the thread holding each, or 0
    thread,                    \* each calling thread: its position and its Lock
    \* ---- live detector view (live/raw.py) ----
    det,                       \* the Detector or RollingDetectorView object
    got,                       \* the arrays the caller obtained from it
    \* ---- pruning of a NeXus workflow (workflow.py) ----
    prune                      \* prune_nexus_domain_types: the graph and the last call

accVars == <<heap, held, returned, pushed, eValue, rValues, log, nMut>>

streamVars == <<pc, dynamic_keys, target_keys, allow_bypass, accumulators,
                accumulator_dependencies, process_chunk_workflow, finalize_workflow,
                evalCtor, evalAcc, evalFin, last, nAcc, nFin>>

vars == <<heap, held, returned, pushed, kind, eValue, rValues, window, log, nMut,
          pc, dynamic_keys, target_keys, allow_bypass, accumulators,
          accumulator_dependencies, process_chunk_workflow, finalize_workflow,
          evalCtor, evalAcc, evalFin, last, nAcc, nFin, tof, lut,
          locks, lock_owner, thread, det, got, prune>>

\* The variables of the parts other than the streaming module.
tofVars == <<tof>>
lutVars == <<lut>>
scicatVars == <<locks, lock_owner, thread>>
liveVars == <<det, got>>
pruneVars == <<prune>>
extVars == <<tofVars, lutVars, scicatVars, liveVars, pruneVars>>
streamingVars == <<accVars, kind, window, streamVars>>

\* ------------------------------------------------------------------ bounds
MaxObjs == 3
MaxWindow == 2
MaxMut == 1
MaxPush == 3
MaxChunks == 2
MaxFinalize == 2
MaxStride == 2
MaxPulse == 3
MaxPivot == 4
MaxRange == 3
MaxNeutrons == 4
NThreads == 3

\* The counts a caller's new object may hold.
Vals == {1, 2}

\* ------------------------------------------------------------- the heap
NoneId == 0
RaisedId == 0 - 1

Ids == 1..Len(heap)

\* Contents standing for None and for a raised exception.
NoneVal == 0 - 1
RaisedVal == 0 - 2

EmptyFn == [x \in {} |-> 0]

Range(s) == {s[i] : i \in 1..Len(s)}

RECURSIVE SumSeq(_)
SumSeq(s) == IF s = <<>> THEN 0 ELSE Head(s) + SumSeq(Tail(s))

\* The last n elements of s (all of s when it is shorter).
LastN(s, n) == IF Len(s) <= n THEN s ELSE SubSeq(s, Len(s) - n + 1, Len(s))

Dense(c) == [binned |-> FALSE, c |-> c]

\* maybe_hist: a binned value is histogrammed into a new dense object whose
\* counts are the numbers of events; any other value is returned as it is
\* (the same object).  Gives <<heap after, id of the result>>.
maybe_hist(h, o) ==
    IF h[o].binned THEN <<Append(h, Dense(h[o].c)), Len(h) + 1>> ELSE <<h, o>>

\* copy.deepcopy of object o: a new object with the same contents.
deepcopy(h, o) == <<Append(h, h[o]), Len(h) + 1>>

\* ------------------------------------------------- EternalAccumulator
\* _do_push: the first value is deep-copied, later ones are added in place
\* to the accumulator's own object.  Gives <<heap after, _value after>>.
EternalDoPushOverwrite(h, ev, o) == deepcopy(h, o)

EternalDoPush(h, ev, o) ==
    IF ev = NoneId
    THEN deepcopy(h, o)
    ELSE <<[h EXCEPT ![ev].c = h[ev].c + h[o].c], ev>>

\* value: deepcopy(self._value); deepcopy(None) is None.
EternalValueNoCopy(h, ev) == <<h, ev>>

EternalValue(h, ev) == IF ev = NoneId THEN <<h, NoneId>> ELSE deepcopy(h, ev)

\* ------------------------------------------------- RollingAccumulator
\* _do_push: append the object itself, then drop the oldest on overflow.
RollingDoPushDropNewest(vals, w, o) ==
    LET a == Append(vals, o) IN IF Len(a) > w THEN SubSeq(a, 1, Len(a) - 1) ELSE a

RollingDoPushClear(vals, w, o) ==
    LET a == Append(vals, o) IN IF Len(a) > w THEN <<>> ELSE a

RollingDoPush(vals, w, o) ==
    LET a == Append(vals, o) IN IF Len(a) > w THEN Tail(a) ELSE a

\* value: sc.reduce(self._values).sum(): a new object holding the sum;
\* reducing an empty list raises.
RollingValue(h, vals) ==
    IF vals = <<>>
    THEN <<h, RaisedId>>
    ELSE <<Append(h, Dense(SumSeq([i \in 1..Len(vals) |-> h[vals[i]].c]))), Len(h) + 1>>

\* ------------------------------------------------------------- actions
\* The stream processor's variables while only an accumulator is exercised.
StreamIdle ==
    /\ pc = "idle"
    /\ dynamic_keys = {}
    /\ target_keys = {}
    /\ allow_bypass = FALSE
    /\ accumulators = EmptyFn
    /\ accumulator_dependencies = EmptyFn
    /\ process_chunk_workflow = EmptyFn
    /\ finalize_workflow = EmptyFn
    /\ evalCtor = EmptyFn
    /\ evalAcc = EmptyFn
    /\ evalFin = EmptyFn
    /\ last = [op |-> "none"]
    /\ nAcc = 0
    /\ nFin = 0

\* The other parts' variables while the streaming module is exercised.
TofIdle == tof = [stage |-> "idle"]
LutIdle == lut = [stage |-> "idle"]
ScicatIdle ==
    /\ locks = <<>>
    /\ lock_owner = <<>>
    /\ thread = <<>>

LiveIdle ==
    /\ det = [stage |-> "idle"]
    /\ got = <<>>
PruneIdle == prune = [stage |-> "idle"]

ExtIdle ==
    /\ TofIdle
    /\ LutIdle
    /\ ScicatIdle
    /\ LiveIdle
    /\ PruneIdle

InitAcc ==
    /\ heap = <<>>
    /\ held = {}
    /\ returned = {}
    /\ pushed = {}
    /\ kind \in {"eternal", "rolling"}
    /\ eValue = NoneId
    /\ rValues = <<>>
    /\ window \in 1..MaxWindow
    /\ log = <<>>
    /\ nMut = 0
    /\ StreamIdle
    /\ ExtIdle

\* The caller makes a new object: dense data, or binned (event) data.
NewValue(b, c) ==
    /\ Len(heap) < MaxObjs
    /\ heap' = Append(heap, [binned |-> b, c |-> c])
    /\ held' = held \cup {Len(heap) + 1}
    /\ UNCHANGED <<returned, pushed, kind, eValue, rValues, window, log, nMut>>
    /\ UNCHANGED <<streamVars, extVars>>

\* Accumulator.push: preprocess (maybe_hist), then the class's _do_push.
push(o) ==
    /\ o \in held
    /\ Len(log) < MaxPush
    /\ Len(heap) + (IF heap[o].binned THEN 1 ELSE 0)
                 + (IF kind = "eternal" /\ eValue = NoneId THEN 1 ELSE 0) <= MaxObjs
    /\ LET pre == maybe_hist(heap, o)
           res == EternalDoPush(pre[1], eValue, pre[2])
       IN /\ log' = Append(log, pre[1][pre[2]].c)
          /\ IF kind = "eternal"
             THEN /\ heap' = res[1]
                  /\ eValue' = res[2]
                  /\ UNCHANGED rValues
             ELSE /\ heap' = pre[1]
                  /\ rValues' = RollingDoPush(rValues, window, pre[2])
                  /\ UNCHANGED eValue
    /\ pushed' = pushed \cup {o}
    /\ UNCHANGED <<held, returned, kind, window, nMut>>
    /\ UNCHANGED <<streamVars, extVars>>

\* The caller reads the value property and keeps the object it gets.
value ==
    /\ Len(heap) < MaxObjs
    /\ LET res == IF kind = "eternal"
                  THEN EternalValue(heap, eValue)
                  ELSE RollingValue(heap, rValues)
       IN /\ heap' = res[1]
          /\ held' = IF res[2] \in {NoneId, RaisedId} THEN held ELSE held \cup {res[2]}
          /\ returned' = IF res[2] \in {NoneId, RaisedId}
                         THEN returned ELSE returned \cup {res[2]}
    /\ UNCHANGED <<pushed, kind, eValue, rValues, window, log, nMut>>
    /\ UNCHANGED <<streamVars, extVars>>

\* The caller changes an object it holds in place (o += 1).
Mutate(o) ==
    /\ o \in held
    /\ nMut < MaxMut
    /\ heap' = [heap EXCEPT ![o].c = heap[o].c + 1]
    /\ nMut' = nMut + 1
    /\ UNCHANGED <<held, returned, pushed, kind, eValue, rValues, window, log>>
    /\ UNCHANGED <<streamVars, extVars>>

NextAcc ==
    \/ \E b \in BOOLEAN, c \in Vals : NewValue(b, c)
    \/ \E o \in Ids : push(o)
    \/ value

NextAlias ==
    \/ NextAcc
    \/ \E o \in Ids : Mutate(o)

\* Pushes and reads, the caller leaving its objects alone.
SpecAcc == InitAcc /\ [][NextAcc]_vars

\* Pushes and reads, the caller also mutating objects it holds.
SpecAlias == InitAcc /\ [][NextAlias]_vars

\* ------------------------------------------------ the workflow (sciline)
\* The base workflow: P, A and B are parameters, the others have providers.
\*     P -> S -> FA -> R,   A -> FA,   B -> FB -> R,   S -> T
Keys == {"P", "A", "B", "S", "FA", "FB", "R", "T"}

Absent == [kind |-> "absent", val |-> 0]
Value(v) == [kind |-> "value", val |-> v]
Provider == [kind |-> "provider", val |-> 0]

BaseWorkflow ==
    [k \in Keys |-> IF k \in {"P", "A", "B"} THEN Value(1) ELSE Provider]

\* The inputs of each provider.
BaseDeps(k) ==
    CASE k = "S" -> {"P"}
      [] k = "FA" -> {"A", "S"}
      [] k = "FB" -> {"B"}
      [] k = "R" -> {"FA", "FB"}
      [] k = "T" -> {"S"}
      [] OTHER -> {}

\* What each provider computes from its inputs.
Provide(k, in) ==
    CASE k = "S" -> in["P"] + 1
      [] k = "FA" -> in["A"] + in["S"]
      [] k = "FB" -> 2 * in["B"]
      [] k = "R" -> in["FA"] + in["FB"]
      [] k = "T" -> 3 * in["S"]

\* graph.predecessors(k): a node holding a value has no incoming edge.
Predecessors(wf, k) == IF wf[k].kind = "provider" THEN BaseDeps(k) ELSE {}

RECURSIVE Ancestors(_, _)
\* nx.ancestors(graph, k): the nodes with a path to k, k excluded.
Ancestors(wf, k) ==
    Predecessors(wf, k) \cup UNION {Ancestors(wf, d) : d \in Predecessors(wf, k)}

\* nx.descendants(graph, k): the nodes reachable from k, k excluded.
Descendants(wf, k) == {n \in Keys : k \in Ancestors(wf, n)}

\* Pipeline.__setitem__ with a value: the node holds it and loses its inputs.
SetValues(wf, vals) ==
    [k \in Keys |-> IF k \in DOMAIN vals THEN Value(vals[k]) ELSE wf[k]]

RECURSIVE Eval(_, _)
\* The value Pipeline.compute gives for key k; RaisedVal when computing it
\* raises (a missing node, or a provider called with None).
Eval(wf, k) ==
    IF wf[k].kind = "value" THEN wf[k].val
    ELSE IF wf[k].kind = "absent" THEN RaisedVal
    ELSE LET in == [d \in BaseDeps(k) |-> Eval(wf, d)]
         IN IF \E d \in BaseDeps(k) : in[d] < 0 THEN RaisedVal ELSE Provide(k, in)

\* The providers a Pipeline.compute(keys) that returns has called: those of
\* the keys and of their ancestors, each once.
Called(wf, keys) ==
    {k \in keys \cup UNION {Ancestors(wf, t) : t \in keys} : wf[k].kind = "provider"}

\* Whether Pipeline.compute(keys) raises.
Raises(wf, keys) == \E k \in keys : Eval(wf, k) = RaisedVal

Count(ev, ks) == [k \in DOMAIN ev |-> IF k \in ks THEN ev[k] + 1 ELSE ev[k]]

\* _find_descendants
find_descendants(wf, keys) == (UNION {Descendants(wf, k) : k \in keys}) \cup keys

\* _find_parents
find_parents(wf, keys) == UNION {Predecessors(wf, k) : k \in keys}

\* ------------------------------------------- accumulators, by contents
\* A new accumulator of the class `kind`: no value, an empty window.
NewAccumulator == [value |-> NoneVal, values |-> <<>>]

\* Accumulator.push of contents v (dense: maybe_hist leaves it as it is).
AccPush(acc, v) ==
    IF kind = "eternal"
    THEN [acc EXCEPT !.value = IF @ = NoneVal THEN v ELSE @ + v]
    ELSE [acc EXCEPT !.values = RollingDoPush(@, window, v)]

\* Accumulator.value: None before the first push to an EternalAccumulator;
\* a RollingAccumulator with nothing in its window raises.
AccValue(acc) ==
    IF kind = "eternal" THEN acc.value
    ELSE IF acc.values = <<>> THEN RaisedVal ELSE SumSeq(acc.values)

\* ------------------------------------------------------ StreamProcessor
DynamicCandidates == {"A", "B"}
TargetCandidates == {"R", "T"}
AccumulatorCandidates == {"A", "FB", "R"}
ChunkKeys == {"A", "B"}
ChunkVals == {1, 2}
ProviderKeys == {k \in Keys : BaseWorkflow[k].kind = "provider"}

\* The iteration order of the accumulators dict.
AccOrder == <<"A", "FB", "R">>

\* Lines 177-181: the targets with their ancestors, the dynamic keys set to
\* None, which cuts them from their own inputs.
TargetWorkflow(targets, dynamic) ==
    LET sub == [k \in Keys |->
                  IF k \in targets \cup UNION {Ancestors(BaseWorkflow, t) : t \in targets}
                  THEN BaseWorkflow[k] ELSE Absent]
    IN SetValues(sub, [k \in dynamic |-> NoneVal])

\* Lines 187-188: the static nodes that feed a node depending on a dynamic key.
StaticParents(wf, dynamic) ==
    LET nodes == find_descendants(wf, dynamic)
    IN find_parents(wf, nodes) \ nodes

InitStream ==
    /\ heap = <<>>
    /\ held = {}
    /\ returned = {}
    /\ pushed = {}
    /\ kind \in {"eternal", "rolling"}
    /\ eValue = NoneId
    /\ rValues = <<>>
    /\ window = MaxWindow
    /\ log = <<>>
    /\ nMut = 0
    /\ pc = "new"
    /\ dynamic_keys \in SUBSET DynamicCandidates \ {{}}
    /\ target_keys \in {ts \in SUBSET TargetCandidates : "R" \in ts}
    /\ allow_bypass \in BOOLEAN
    /\ accumulators \in {[k \in ks |-> NewAccumulator] : ks \in SUBSET AccumulatorCandidates}
    /\ accumulator_dependencies = EmptyFn
    /\ process_chunk_workflow = [k \in Keys |-> Absent]
    /\ finalize_workflow = [k \in Keys |-> Absent]
    /\ evalCtor = [k \in ProviderKeys |-> 0]
    /\ evalAcc = [k \in ProviderKeys |-> 0]
    /\ evalFin = [k \in ProviderKeys |-> 0]
    /\ last = [op |-> "none"]
    /\ nAcc = 0
    /\ nFin = 0
    /\ ExtIdle

\* StreamProcessor.__init__
Construct ==
    /\ pc = "new"
    /\ LET workflow == TargetWorkflow(target_keys, dynamic_keys)
           parents == StaticParents(workflow, dynamic_keys)
           frozen == SetValues(workflow, [k \in parents |-> Eval(BaseWorkflow, k)])
           kept == {k \in DOMAIN accumulators : frozen[k].kind # "absent"}
       IN /\ evalCtor' = Count(evalCtor, Called(BaseWorkflow, parents))
          /\ process_chunk_workflow' = frozen
          /\ finalize_workflow' = frozen
          /\ accumulator_dependencies' =
                 [a \in kept |-> Ancestors(frozen, a) \cap dynamic_keys]
          /\ accumulators' = [a \in kept |-> accumulators[a]]
    /\ pc' = "ready"
    /\ last' = [op |-> "init"]
    /\ UNCHANGED <<dynamic_keys, target_keys, allow_bypass, evalAcc, evalFin, nAcc, nFin>>
    /\ UNCHANGED <<accVars, kind, window, extVars>>

\* Line 261: the keys of the chunk that were not declared dynamic.
non_dynamic_unchecked(chunks) == {}

non_dynamic(chunks) == DOMAIN chunks \ dynamic_keys

\* Lines 268-275: the accumulators of which the chunk holds some but not all
\* of the dynamic keys they depend on.
missing_dependencies_unchecked(chunks) == {}

missing_dependencies(chunks) ==
    {a \in DOMAIN accumulator_dependencies :
        /\ accumulator_dependencies[a] \cap DOMAIN chunks # {}
        /\ ~(accumulator_dependencies[a] \subseteq DOMAIN chunks)}

\* Lines 267-276: the accumulators this chunk updates.
accumulators_to_update(chunks) ==
    {a \in DOMAIN accumulator_dependencies :
        /\ accumulator_dependencies[a] \cap DOMAIN chunks # {}
        /\ a \notin missing_dependencies(chunks)}

\* Lines 283-284: the chunk's values are also written into the finalize
\* workflow when bypassing accumulators is allowed.
bypass_write_always(fw, chunks) == SetValues(fw, chunks)

bypass_write(fw, chunks) == IF allow_bypass THEN SetValues(fw, chunks) ELSE fw

\* The place of accumulator a in the iteration order of the dict.
AccIndex(a) == CHOOSE i \in 1..Len(AccOrder) : AccOrder[i] = a

\* What can end a call that passed the argument checks: nothing ("none"), a
\* provider raising in compute ("provider"), or the push of one accumulator
\* raising, in its preprocess or in the addition to the value it holds.
Failures(to_update) == {"none", "provider"} \cup to_update

\* Lines 286-287: the accumulators pushed to, in dict order, before the call
\* ends.
pushes_done(to_update, failure) ==
    IF failure = "none" THEN to_update
    ELSE IF failure = "provider" THEN {}
    ELSE {a \in to_update : AccIndex(a) < AccIndex(failure)}

\* StreamProcessor.accumulate. The exceptions of the argument checks are
\* followed by further calls; a run is followed up to the first exception
\* raised after them, which leaves pc at "raised".
accumulate(chunks) ==
    /\ pc = "ready"
    /\ nAcc < MaxChunks
    /\ LET to_update == accumulators_to_update(chunks)
           pcw == SetValues(process_chunk_workflow, chunks)
       IN IF non_dynamic(chunks) # {}
          THEN /\ last' = [op |-> "accumulate", chunks |-> chunks, raised |-> "non_dynamic"]
               /\ UNCHANGED <<pc, accumulators, process_chunk_workflow, finalize_workflow,
                              evalAcc, nAcc>>
          ELSE IF missing_dependencies(chunks) # {}
          THEN /\ last' = [op |-> "accumulate", chunks |-> chunks, raised |-> "partial"]
               /\ UNCHANGED <<pc, accumulators, process_chunk_workflow, finalize_workflow,
                              evalAcc, nAcc>>
          ELSE \E failure \in Failures(to_update) :
               /\ process_chunk_workflow' = pcw
               /\ finalize_workflow' = bypass_write(finalize_workflow, chunks)
               \* Which providers ran before one raised depends on the
               \* scheduler's order: only a compute that returns is counted.
               /\ evalAcc' = IF failure = "provider" THEN evalAcc
                             ELSE Count(evalAcc, Called(pcw, to_update))
               /\ accumulators' =
                      [a \in DOMAIN accumulators |->
                          IF a \in pushes_done(to_update, failure)
                          THEN AccPush(accumulators[a], Eval(pcw, a))
                          ELSE accumulators[a]]
               /\ last' = [op |-> "accumulate", chunks |-> chunks,
                           raised |-> IF failure = "none" THEN "no"
                                      ELSE IF failure = "provider" THEN "provider"
                                      ELSE "push"]
               /\ nAcc' = nAcc + 1
               /\ pc' = IF failure = "none" THEN pc ELSE "raised"
    /\ UNCHANGED <<dynamic_keys, target_keys, allow_bypass, accumulator_dependencies,
                   evalCtor, evalFin, nFin>>
    /\ UNCHANGED <<accVars, kind, window, extVars>>

\* Lines 298-299: the accumulators' values written in dict order, up to the
\* first value read that raises.
RECURSIVE WriteValues(_, _)
WriteValues(wf, i) ==
    IF i > Len(AccOrder) THEN <<wf, FALSE>>
    ELSE IF AccOrder[i] \notin DOMAIN accumulators THEN WriteValues(wf, i + 1)
    ELSE LET v == AccValue(accumulators[AccOrder[i]])
         IN IF v = RaisedVal THEN <<wf, TRUE>>
            ELSE WriteValues(SetValues(wf, [k \in {AccOrder[i]} |-> v]), i + 1)

\* StreamProcessor.finalize
finalizeDraining ==
    /\ pc = "ready"
    /\ nFin < MaxFinalize
    /\ LET w == WriteValues(finalize_workflow, 1)
           raised == w[2] \/ Raises(w[1], target_keys)
       IN /\ finalize_workflow' = w[1]
          \* Which providers ran before an exception depends on the
          \* scheduler's order: only a compute that returns is counted.
          /\ evalFin' = IF raised THEN evalFin ELSE Count(evalFin, Called(w[1], target_keys))
          /\ last' = [op |-> "finalize", again |-> (last.op = "finalize"),
                      result |-> IF raised THEN [t \in target_keys |-> RaisedVal]
                                 ELSE [t \in target_keys |-> Eval(w[1], t)]]
    /\ accumulators' = [a \in DOMAIN accumulators |-> NewAccumulator]
    /\ nFin' = nFin + 1
    /\ UNCHANGED <<pc, dynamic_keys, target_keys, allow_bypass,
                   accumulator_dependencies, process_chunk_workflow, evalCtor, evalAcc, nAcc>>
    /\ UNCHANGED <<accVars, kind, window, extVars>>

finalize ==
    /\ pc = "ready"
    /\ nFin < MaxFinalize
    /\ LET w == WriteValues(finalize_workflow, 1)
           raised == w[2] \/ Raises(w[1], target_keys)
       IN /\ finalize_workflow' = w[1]
          \* Which providers ran before an exception depends on the
          \* scheduler's order: only a compute that returns is counted.
          /\ evalFin' = IF raised THEN evalFin ELSE Count(evalFin, Called(w[1], target_keys))
          /\ last' = [op |-> "finalize", again |-> (last.op = "finalize"),
                      result |-> IF raised THEN [t \in target_keys |-> RaisedVal]
                                 ELSE [t \in target_keys |-> Eval(w[1], t)]]
    /\ nFin' = nFin + 1
    /\ UNCHANGED <<pc, dynamic_keys, target_keys, allow_bypass, accumulators,
                   accumulator_dependencies, process_chunk_workflow, evalCtor, evalAcc, nAcc>>
    /\ UNCHANGED <<accVars, kind, window, extVars>>

NextStream ==
    \/ Construct
    \/ \E ks \in SUBSET ChunkKeys : \E chunks \in [ks -> ChunkVals] : accumulate(chunks)
    \/ finalize

\* A StreamProcessor is constructed for a workflow in which the target R
\* depends on the dynamic keys, then fed chunks and finalized in any order.
SpecStream == InitStream /\ [][NextStream]_vars

\* ------------------------------- time-of-arrival unwrapping (toa_to_tof)
\* An optional value: None is the empty tuple, a value x is <<x>>.
None == <<>>
Some(x) == <<x>>

\* Python's `x or d` for an optional integer x: None and 0 are falsy.
Or(x, d) == IF x = None \/ x = Some(0) THEN d ELSE x[1]

\* default_parameters of toa_to_tof: PulseStride and PulseStrideOffset.
DefaultPulseStride == 1
DefaultPulseStrideOffset == 0

\* Times are whole numbers of one time unit.
PulsePeriods == {2, 3}
NEvents == 2

Min(S) == CHOOSE x \in S : \A y \in S : x <= y

\* The remainder of a truncating division (C's fmod): the sign of a.
fmod(a, b) == IF a >= 0 THEN a % b ELSE 0 - ((0 - a) % b)

\* scipp's `%`: a - b * floor(a / b), the remainder has the sign of b.
mod(a, b) == a - b * (a \div b)

frame_period_plus_one(pulse_period, pulse_stride) == pulse_period * (pulse_stride + 1)

frame_period(pulse_period, pulse_stride) == pulse_period * pulse_stride

\* event_time_zero of an event: the start of its source pulse.
event_time_zero(e, pulse_period) == e.pulse * pulse_period

\* unwrapped_time_of_arrival: histogram data gives its time coordinate;
\* event data gives event_time_offset + (event_time_zero - min) -
\* offset * pulse_period, and `None * pulse_period` raises TypeError.
unwrapped_time_of_arrival(da, offset, pulse_period) ==
    IF ~da.binned
    THEN [raised |-> FALSE, toa |-> [i \in 1..Len(da.events) |-> da.events[i].t]]
    ELSE IF offset = None
    THEN [raised |-> TRUE, toa |-> <<>>]
    ELSE LET zmin == Min({event_time_zero(da.events[i], pulse_period) :
                             i \in 1..Len(da.events)})
         IN [raised |-> FALSE,
             toa |-> [i \in 1..Len(da.events) |->
                        da.events[i].t
                        + (event_time_zero(da.events[i], pulse_period) - zmin)
                        - offset[1] * pulse_period]]

unwrapped_time_of_arrival_minus_frame_pivot_time(toa, pivot_time) ==
    [i \in 1..Len(toa) |-> (0 - pivot_time) + toa[i]]

time_of_arrival_minus_pivot_time_modulo_period_trunc(toa_minus_pivot_time, period) ==
    [i \in 1..Len(toa_minus_pivot_time) |-> fmod(toa_minus_pivot_time[i], period)]

time_of_arrival_minus_pivot_time_modulo_period(toa_minus_pivot_time, period) ==
    [i \in 1..Len(toa_minus_pivot_time) |-> mod(toa_minus_pivot_time[i], period)]

time_of_arrival_folded_by_frame(toa, pivot_time) ==
    [i \in 1..Len(toa) |-> toa[i] + pivot_time]

\* The raw data: event data (events of source pulses 0..MaxPulse, each with
\* its event_time_offset within the pulse period) or a histogram's time
\* coordinate.
RawDatas(pulse_period) ==
    {[binned |-> b, events |-> es] :
        b \in BOOLEAN,
        es \in [1..NEvents -> [pulse : 0..MaxPulse, t : 0..(pulse_period - 1)]]}
    \ {da \in [binned : {FALSE},
               events : [1..NEvents -> [pulse : 0..MaxPulse, t : 0..(pulse_period - 1)]]] :
          \E i \in 1..NEvents : da.events[i].pulse # 0}

\* The stride offsets that can be given: None, or the index of a pulse in the stride.
Offsets(pulse_stride) == {None} \cup {Some(o) : o \in 0..(pulse_stride - 1)}

\* The other parts' variables while the unwrapping is exercised.
StreamingIdle ==
    /\ heap = <<>>
    /\ held = {}
    /\ returned = {}
    /\ pushed = {}
    /\ kind = "eternal"
    /\ eValue = NoneId
    /\ rValues = <<>>
    /\ window = MaxWindow
    /\ log = <<>>
    /\ nMut = 0
    /\ StreamIdle

InitUnwrap ==
    /\ StreamingIdle
    /\ LutIdle
    /\ ScicatIdle
    /\ LiveIdle
    /\ PruneIdle
    /\ \E pp \in PulsePeriods, pivot \in 0..MaxPivot :
       \E da \in RawDatas(pp) :
          tof = [stage |-> "new",
                 PulsePeriod |-> pp,
                 PivotTimeAtDetector |-> pivot,
                 RawData |-> da,
                 PulseStride |-> DefaultPulseStride,
                 PulseStrideOffset |-> None,
                 assigned |-> FALSE,
                 UnwrappedTimeOfArrival |-> <<>>,
                 UnwrappedTimeOfArrivalMinusPivotTime |-> <<>>,
                 TimeOfArrivalMinusPivotTimeModuloPeriod |-> <<>>,
                 FrameFoldedTimeOfArrival |-> <<>>]

\* TofWorkflow.__init__: the arguments left out (None) take their defaults.
TofWorkflow(pulse_stride, pulse_stride_offset) ==
    /\ tof.stage = "new"
    /\ tof' = [tof EXCEPT !.stage = "params",
                          !.PulseStride = Or(pulse_stride, DefaultPulseStride),
                          !.PulseStrideOffset =
                              Some(Or(pulse_stride_offset, DefaultPulseStrideOffset))]
    /\ UNCHANGED <<streamingVars, lutVars, scicatVars, liveVars, pruneVars>>

\* TofWorkflow.__setitem__ of the key PulseStrideOffset (the parameter's
\* type allows None).
setitem_PulseStrideOffset(v) ==
    /\ tof.stage = "params"
    /\ ~tof.assigned
    /\ tof' = [tof EXCEPT !.PulseStrideOffset = v, !.assigned = TRUE]
    /\ UNCHANGED <<streamingVars, lutVars, scicatVars, liveVars, pruneVars>>

\* The providers, in the order the pipeline calls them.
ProvideUnwrappedTimeOfArrival ==
    /\ tof.stage = "params"
    /\ LET res == unwrapped_time_of_arrival(tof.RawData, tof.PulseStrideOffset,
                                            tof.PulsePeriod)
       IN tof' = [tof EXCEPT !.stage = IF res.raised THEN "raised" ELSE "unwrapped",
                             !.UnwrappedTimeOfArrival = res.toa]
    /\ UNCHANGED <<streamingVars, lutVars, scicatVars, liveVars, pruneVars>>

ProvideUnwrappedTimeOfArrivalMinusPivotTime ==
    /\ tof.stage = "unwrapped"
    /\ tof' = [tof EXCEPT !.stage = "minus_pivot",
                          !.UnwrappedTimeOfArrivalMinusPivotTime =
                              unwrapped_time_of_arrival_minus_frame_pivot_time(
                                  tof.UnwrappedTimeOfArrival, tof.PivotTimeAtDetector)]
    /\ UNCHANGED <<streamingVars, lutVars, scicatVars, liveVars, pruneVars>>

ProvideTimeOfArrivalMinusPivotTimeModuloPeriod ==
    /\ tof.stage = "minus_pivot"
    /\ tof' = [tof EXCEPT !.stage = "modulo",
                          !.TimeOfArrivalMinusPivotTimeModuloPeriod =
                              time_of_arrival_minus_pivot_time_modulo_period(
                                  tof.UnwrappedTimeOfArrivalMinusPivotTime,
                                  frame_period(tof.PulsePeriod, tof.PulseStride))]
    /\ UNCHANGED <<streamingVars, lutVars, scicatVars, liveVars, pruneVars>>

ProvideFrameFoldedTimeOfArrival ==
    /\ tof.stage = "modulo"
    /\ tof' = [tof EXCEPT !.stage = "folded",
                          !.FrameFoldedTimeOfArrival =
                              time_of_arrival_folded_by_frame(
                                  tof.TimeOfArrivalMinusPivotTimeModuloPeriod,
                                  tof.PivotTimeAtDetector)]
    /\ UNCHANGED <<streamingVars, lutVars, scicatVars, liveVars, pruneVars>>

NextUnwrap ==
    \/ \E st \in {None} \cup {Some(n) : n \in 1..MaxStride} :
       \E off \in Offsets(Or(st, DefaultPulseStride)) : TofWorkflow(st, off)
    \/ \E v \in Offsets(tof.PulseStride) : setitem_PulseStrideOffset(v)
    \/ ProvideUnwrappedTimeOfArrival
    \/ ProvideUnwrappedTimeOfArrivalMinusPivotTime
    \/ ProvideTimeOfArrivalMinusPivotTimeModuloPeriod
    \/ ProvideFrameFoldedTimeOfArrival

\* A time-of-flight workflow is built, its stride offset possibly set again,
\* and the folded time of arrival computed for some raw data.
SpecUnwrap == InitUnwrap /\ [][NextUnwrap]_vars

\* ------------------------------- lookup table (time_of_flight/lookup_table.py)
\* Distances are whole numbers of a length unit in which the resolutions are
\* even, so that bin centres are whole numbers too.
Resolutions == {2, 4}
LtotalMins == {10, 11}
SimulationDistances == {2}
TimeResolutions == {1, 2}

\* Line 232: the number of (distance bin, neutron) pairs handled in one chunk,
\* 2e7 in the source, scaled down to the model's numbers of neutrons.
max_size == 4

\* LookupTableRelativeErrorThreshold, 0.1, as 1 / error_threshold_inverse.
error_threshold_inverse == 10

\* A number as a fraction <<numerator, denominator>>; 0/0 is not-a-number.
NaN == <<0, 0>>

\* The neutrons of a simulation: time of arrival at the simulation's
\* distance, 1 / speed, wavelength (proportional to 1 / speed, so that
\* distance * m_n / h * wavelength is distance / speed) and weight.
Neutrons ==
    {[time_of_arrival |-> a, inverse_speed |-> v, wavelength |-> v, weight |-> 1] :
        a \in {0, 1}, v \in {1, 2}}

NeutronRank(n) == 2 * n.time_of_arrival + n.inverse_speed

\* The simulations: up to MaxNeutrons neutrons (their order does not matter:
\* they are listed by rank).
Simulations ==
    UNION {{sim \in [1..k -> Neutrons] :
               \A i \in 1..(k - 1) : NeutronRank(sim[i]) <= NeutronRank(sim[i + 1])} :
           k \in 0..MaxNeutrons}

\* sc.arange(start, stop, step): start, start + step, ... below stop.
arange_short(start, stop, step) ==
    [i \in 1..((stop - start + step - 1) \div step - 1) |-> start + (i - 1) * step]

arange(start, stop, step) ==
    [i \in 1..((stop - start + step - 1) \div step) |-> start + (i - 1) * step]

\* sc.midpoints
midpoints(x) == [i \in 1..(Len(x) - 1) |-> (x[i] + x[i + 1]) \div 2]

\* A Python slice x[a:b] (a and b counted from 0).
Slice(x, a, b) ==
    LET hi == IF b < Len(x) THEN b ELSE Len(x)
    IN IF a >= hi THEN <<>> ELSE SubSeq(x, a + 1, hi)

\* Line 213.
pad_one(res) == res

pad(res) == 2 * res

\* Lines 199-214: the edges of the distance bins, seen from the simulation's
\* distance.
distance_bins(ltotal_range, res, simulation_distance) ==
    LET min_dist == ltotal_range[1] - simulation_distance
        max_dist == ltotal_range[2] - simulation_distance
    IN arange(min_dist - pad(res), max_dist + pad(res), res)

\* Line 222.
nbins(frame, time_resolution) == frame \div time_resolution + 1

\* The table's times are whole numbers of 1 / (2 * nbins) time unit: the half
\* width of a time bin (line 226) is then `frame` and the frame period is
\* 2 * nbins * frame.
time_scale(nb) == 2 * nb

\* Lines 223-227: the staggered edges of the event_time_offset bins.
time_bins(frame, nb) == [j \in 1..(nb + 1) |-> (j - 1) * 2 * frame - frame]

\* Lines 231-238: the edges handed to each iteration of the chunk loop.
\* nchunks is total_size / max_size, so int(ndist / nchunks) is the whole
\* part of ndist * max_size / total_size.
chunk_size(ndist, total_size) == (ndist * max_size) \div total_size + 1

chunks(bins, nneutrons) ==
    LET ndist == Len(bins) - 1
        total_size == ndist * nneutrons
        size == chunk_size(ndist, total_size)
    IN [i \in 1..(total_size \div max_size + 1) |->
           Slice(bins, (i - 1) * size, i * size + 1)]

RECURSIVE WeightedSum(_, _, _, _)
\* The sum of weight * tof^p over the events of time bin t.
WeightedSum(events, t, p, n) ==
    IF n = 0 THEN 0
    ELSE WeightedSum(events, t, p, n - 1)
         + (IF events[n].bin # t THEN 0
            ELSE events[n].weight * (IF p = 0 THEN 1
                                     ELSE IF p = 1 THEN events[n].tof
                                     ELSE events[n].tof * events[n].tof))

\* Lines 109-118: the weighted mean of tof in a bin and its variance; both
\* are 0/0 in a bin without events.
MeanTof(events, t) ==
    LET W == WeightedSum(events, t, 0, Len(events))
        S == WeightedSum(events, t, 1, Len(events))
        Q == WeightedSum(events, t, 2, Len(events))
    IN [value |-> <<S, W>>, variance |-> <<W * Q - S * S, W * W>>]

\* Lines 75-119: one row of time bins per distance bin of the edges given.
compute_mean_tof_in_distance_range(simulation, dist_edges, simulation_distance, frame, nb) ==
    LET distances == midpoints(dist_edges)
        period == time_scale(nb) * frame
        events(d) ==
            [n \in 1..Len(simulation) |->
                LET toa == time_scale(nb) * (simulation[n].time_of_arrival
                                               + d * simulation[n].inverse_speed)
                    eto == mod(mod(toa, period), period - frame)
                IN [tof |-> (d + simulation_distance) * simulation[n].wavelength,
                    weight |-> simulation[n].weight,
                    bin |-> (eto + frame) \div (2 * frame) + 1]]
    IN [b \in 1..Len(distances) |->
           [distance |-> distances[b] + simulation_distance,
            data |-> [t \in 1..nb |-> MeanTof(events(distances[b]), t)]]]

RECURSIVE Concat(_)
\* sc.concat(pieces, 'distance')
Concat(pieces) == IF pieces = <<>> THEN <<>> ELSE Head(pieces) \o Concat(Tail(pieces))

\* Lines 256-266: the first column is appended after the last one.
copy_second_column(rows) == [b \in 1..Len(rows) |-> Append(rows[b].data, rows[b].data[2])]

copy_left_edge(rows) == [b \in 1..Len(rows) |-> Append(rows[b].data, rows[b].data[1])]

\* Lines 39-40: the relative standard deviation is above the threshold
\* (a comparison with not-a-number is false).
large_uncertainty(cell) ==
    /\ cell.value # NaN
    /\ error_threshold_inverse * error_threshold_inverse
           * cell.variance[1] * cell.value[2] * cell.value[2]
       > cell.variance[2] * cell.value[1] * cell.value[1]

\* _mask_large_uncertainty
mask_large_uncertainty(data) ==
    [b \in 1..Len(data) |->
        [t \in 1..Len(data[b]) |->
            IF large_uncertainty(data[b][t])
            THEN [data[b][t] EXCEPT !.value = NaN] ELSE data[b][t]]]

\* Lines 252-280: the table made of the pieces.
Table(pieces, frame, nb) ==
    LET rows == Concat(pieces)
    IN [distance |-> [b \in 1..Len(rows) |-> rows[b].distance],
        event_time_offset |-> Append(midpoints(time_bins(frame, nb)), time_scale(nb) * frame),
        data |-> mask_large_uncertainty(copy_left_edge(rows))]

InitLut ==
    /\ StreamingIdle
    /\ TofIdle
    /\ ScicatIdle
    /\ LiveIdle
    /\ PruneIdle
    /\ \E lmin \in LtotalMins, range \in 0..MaxRange, res \in Resolutions,
          sd \in SimulationDistances, sim \in Simulations,
          pp \in PulsePeriods, st \in 1..MaxStride, tr \in TimeResolutions :
          lut = [stage |-> "new",
                 ltotal_range |-> <<lmin, lmin + range>>,
                 distance_resolution |-> res,
                 simulation |-> [distance |-> sd, neutrons |-> sim],
                 pulse_period |-> pp,
                 pulse_stride |-> st,
                 time_resolution |-> tr,
                 distance_bins |-> <<>>,
                 chunks |-> <<>>,
                 table |-> <<>>]

\* compute_tof_lookup_table.  Dividing by nchunks = 0.0 raises; what the
\* library makes of a chunk of fewer than two edges is not fixed by this
\* code: it raises or yields a piece without rows.
compute_tof_lookup_table(raises) ==
    /\ lut.stage = "new"
    /\ LET frame == frame_period(lut.pulse_period, lut.pulse_stride)
           nb == nbins(frame, lut.time_resolution)
           bins == distance_bins(lut.ltotal_range, lut.distance_resolution,
                                 lut.simulation.distance)
           nneutrons == Len(lut.simulation.neutrons)
           cs == IF nneutrons = 0 THEN <<>> ELSE chunks(bins, nneutrons)
           short == \E i \in 1..Len(cs) : Len(cs[i]) < 2
           pieces == [i \in 1..Len(cs) |->
                         IF Len(cs[i]) < 2 THEN <<>>
                         ELSE compute_mean_tof_in_distance_range(
                                  lut.simulation.neutrons, cs[i],
                                  lut.simulation.distance, frame, nb)]
       IN /\ raises \in (IF nneutrons = 0 THEN {TRUE}
                         ELSE IF short THEN BOOLEAN ELSE {FALSE})
          /\ lut' = [lut EXCEPT !.stage = IF raises THEN "raised" ELSE "returned",
                                !.distance_bins = bins,
                                !.chunks = cs,
                                !.table = IF raises THEN <<>>
                                          ELSE Table(pieces, frame, nb)]
    /\ UNCHANGED <<streamingVars, tofVars, scicatVars, liveVars, pruneVars>>

NextLut ==
    \E raises \in BOOLEAN : compute_tof_lookup_table(raises)

\* A lookup table is computed for some simulation and range of distances.
SpecLut == InitLut /\ [][NextLut]_vars

\* ------------------------------------------------ file download (scicat.py)
\* The threads calling download_scicat_file, all with the same
\* (dataset_id, filename, target), hence the same key.
Threads == 1..NThreads

\* The threads between acquiring their Lock and leaving the calls to the client.
InSection == {t \in Threads : thread[t].pc \in {"get_dataset", "download_files"}}

InitScicat ==
    /\ StreamingIdle
    /\ TofIdle
    /\ LutIdle
    /\ LiveIdle
    /\ PruneIdle
    /\ locks = <<>>
    /\ lock_owner = <<>>
    /\ thread = [t \in Threads |-> [pc |-> "idle", lock |-> 0]]

\* Line 50, _locks.setdefault(key, Lock()): the Lock stored under the key,
\* a new one being stored when there is none.
setdefault(t) ==
    /\ thread[t].pc = "idle"
    /\ IF locks = <<>>
       THEN /\ lock_owner' = Append(lock_owner, 0)
            /\ locks' = <<Len(lock_owner) + 1>>
            /\ thread' = [thread EXCEPT ![t] = [pc |-> "with", lock |-> Len(lock_owner) + 1]]
       ELSE /\ thread' = [thread EXCEPT ![t] = [pc |-> "with", lock |-> locks[1]]]
            /\ UNCHANGED <<locks, lock_owner>>
    /\ UNCHANGED <<streamingVars, tofVars, lutVars, liveVars, pruneVars>>

\* Line 50, entering the with block: the thread waits until its Lock is free.
acquire(t) ==
    /\ thread[t].pc = "with"
    /\ lock_owner[thread[t].lock] = 0
    /\ lock_owner' = [lock_owner EXCEPT ![thread[t].lock] = t]
    /\ thread' = [thread EXCEPT ![t].pc = "get_dataset"]
    /\ UNCHANGED <<locks, streamingVars, tofVars, lutVars, liveVars, pruneVars>>

\* Line 51: client.get_dataset returns, or raises, which leaves the with
\* block and releases the Lock.
get_dataset(t, ok) ==
    /\ thread[t].pc = "get_dataset"
    /\ IF ok
       THEN /\ thread' = [thread EXCEPT ![t].pc = "download_files"]
            /\ UNCHANGED lock_owner
       ELSE /\ thread' = [thread EXCEPT ![t].pc = "raised"]
            /\ lock_owner' = [lock_owner EXCEPT ![thread[t].lock] = 0]
    /\ UNCHANGED <<locks, streamingVars, tofVars, lutVars, liveVars, pruneVars>>

\* Line 52: client.download_files returns or raises.
download_files_keeps_lock(t, ok) ==
    /\ thread[t].pc = "download_files"
    /\ thread' = [thread EXCEPT ![t].pc = IF ok THEN "pop" ELSE "raised"]
    /\ UNCHANGED <<locks, lock_owner, streamingVars, tofVars, lutVars, liveVars, pruneVars>>

download_files(t, ok) ==
    /\ thread[t].pc = "download_files"
    /\ IF ok
       THEN /\ thread' = [thread EXCEPT ![t].pc = "pop"]
            /\ UNCHANGED lock_owner
       ELSE /\ thread' = [thread EXCEPT ![t].pc = "raised"]
            /\ lock_owner' = [lock_owner EXCEPT ![thread[t].lock] = 0]
    /\ UNCHANGED <<locks, streamingVars, tofVars, lutVars, liveVars, pruneVars>>

\* Line 53, _locks.pop(key): KeyError when the key is not there.
pop(t) ==
    /\ thread[t].pc = "pop"
    /\ IF locks = <<>>
       THEN /\ thread' = [thread EXCEPT ![t].pc = "KeyError"]
            /\ lock_owner' = [lock_owner EXCEPT ![thread[t].lock] = 0]
            /\ UNCHANGED locks
       ELSE /\ thread' = [thread EXCEPT ![t].pc = "exit"]
            /\ locks' = <<>>
            /\ UNCHANGED lock_owner
    /\ UNCHANGED <<streamingVars, tofVars, lutVars, liveVars, pruneVars>>

\* Leaving the with block releases the Lock; line 54 returns.
exit(t) ==
    /\ thread[t].pc = "exit"
    /\ lock_owner' = [lock_owner EXCEPT ![thread[t].lock] = 0]
    /\ thread' = [thread EXCEPT ![t].pc = "returned"]
    /\ UNCHANGED <<locks, streamingVars, tofVars, lutVars, liveVars, pruneVars>>

\* One step of thread t in download_scicat_file.
download_scicat_file(t) ==
    \/ setdefault(t)
    \/ acquire(t)
    \/ \E ok \in BOOLEAN : get_dataset(t, ok)
    \/ \E ok \in BOOLEAN : download_files(t, ok)
    \/ pop(t)
    \/ exit(t)

NextScicat == \E t \in Threads : download_scicat_file(t)

\* Threads each call download_scicat_file once, in any interleaving.
SpecScicat == InitScicat /\ [][NextScicat]_vars

\* The same, every thread that can take a step eventually taking one: the
\* interpreter schedules every runnable thread and the client's calls end.
SpecScicatFair ==
    InitScicat /\ [][NextScicat]_vars /\ \A t \in Threads : WF_vars(download_scicat_file(t))

\* ------------------------------------------------ live/raw.py: detector views
\* An array of counts is a sequence with one entry per pixel; the history of a
\* RollingDetectorView is a sequence of such rows, one per slot of the window.

\* The detector_number arguments tried: flat arrays, sorted or not.
DetectorNumbers == {<<>>, <<1, 2>>, <<2, 1>>, <<1, 3>>, <<1, 1, 3>>}

\* The window arguments tried.
Windows == {0, 1, 2, 3}

\* The event lists passed to add_counts; 0 and 4 are ids of no pixel.
Datas == {<<>>, <<1>>, <<0, 2, 2, 4>>}

\* The counts of one pixel of a Detector explored.
MaxCounts == 4

zeros(n) == [i \in 1..n |-> 0]

\* a + b and a - b of two arrays of the same shape.
add(a, b) == [i \in 1..Len(a) |-> a[i] + b[i]]
sub(a, b) == [i \in 1..Len(a) |-> a[i] - b[i]]

\* rows[lo:hi].sum('window') with Python's 0-based, end-exclusive bounds.
RECURSIVE sum_window(_, _, _, _)
sum_window(rows, lo, hi, n) ==
    IF lo >= hi THEN zeros(n)
    ELSE add(rows[lo + 1], sum_window(rows, lo + 1, hi, n))

\* sc.issorted(x, dim): no element is smaller than the one before it.
issorted(x) == \A i \in 1..(Len(x) - 1) : x[i] <= x[i + 1]

\* Detector.bincount: the events per pixel, ids outside the detector dropped.
bincount(d, data) ==
    [i \in 1..d.size |->
        Cardinality({k \in 1..Len(data) :
                        LET offset == data[k] - d.start
                        IN  offset >= 0 /\ offset < d.size /\ offset = i - 1})]

\* Detector.__init__: the object, or the exception raised.
Detector_init(cls, detector_number) ==
    IF Len(detector_number) = 0
    THEN [stage |-> "raised", error |-> "IndexError", cls |-> cls,
          detector_number |-> detector_number]
    ELSE LET start == detector_number[1]
             stop == detector_number[Len(detector_number)]
             size == Len(detector_number)
         IN  IF ~issorted(detector_number) \/ stop - start + 1 # size
             THEN [stage |-> "raised", error |-> "ValueError", cls |-> cls,
                   detector_number |-> detector_number]
             ELSE [stage |-> "ready", error |-> "none", cls |-> cls,
                   detector_number |-> detector_number,
                   start |-> start, stop |-> stop, size |-> size,
                   data |-> zeros(size),
                   window |-> 0, current |-> 0, history |-> <<>>, cache |-> <<>>,
                   calls |-> <<>>, cleared |-> FALSE]

\* RollingDetectorView.__init__ without projection.
RollingDetectorView_init(detector_number, window_) ==
    LET d == Detector_init("RollingDetectorView", detector_number)
    IN  IF d.stage = "raised" THEN d
        ELSE [d EXCEPT !.window = window_,
                       !.history = [s \in 1..window_ |-> zeros(d.size)],
                       !.cache = zeros(d.size)]

\* RollingDetectorView.get without the cache and without the part of the sum
\* before the current slot.
get_uncached_no_wrap(d, w) ==
    LET start == d.current - w
    IN  IF start >= 0
        THEN sum_window(d.history, start, d.current, d.size)
        ELSE sum_window(d.history, start % d.window, d.window, d.size)

\* RollingDetectorView.get without the cache: the sum over the slots of the
\* last w calls, wrapping round the end of the history.
get_uncached(d, w) ==
    LET start == d.current - w
    IN  IF start >= 0
        THEN sum_window(d.history, start, d.current, d.size)
        ELSE add(sum_window(d.history, start % d.window, d.window, d.size),
                 sum_window(d.history, 0, d.current, d.size))

\* Whether RollingDetectorView.get(window) raises ValueError.
get_raises(d, window_) ==
    window_ # None /\ ~(0 <= window_[1] /\ window_[1] <= d.window)

\* Whether get(window) returns the _cache object itself.
get_is_cache(d, window_) == window_ = None \/ window_ = Some(d.window)

\* The contents of the array get(window) returns.
get_data(d, window_) ==
    IF get_is_cache(d, window_) THEN d.cache ELSE get_uncached(d, window_[1])

\* The contents now of the array the caller holds.
array_values(a) == IF a.is_cache THEN det.cache ELSE a.values

InitLive ==
    /\ StreamingIdle
    /\ TofIdle
    /\ LutIdle
    /\ ScicatIdle
    /\ PruneIdle
    /\ det = [stage |-> "new"]
    /\ got = <<>>

\* raw.Detector(detector_number)
Detector(detector_number) ==
    /\ det.stage = "new"
    /\ det' = Detector_init("Detector", detector_number)
    /\ UNCHANGED <<got, streamingVars, tofVars, lutVars, scicatVars, pruneVars>>

\* raw.RollingDetectorView(detector_number=..., window=...)
RollingDetectorView(detector_number, window_) ==
    /\ det.stage = "new"
    /\ det' = RollingDetectorView_init(detector_number, window_)
    /\ UNCHANGED <<got, streamingVars, tofVars, lutVars, scicatVars, pruneVars>>

\* Detector.add_counts and its override RollingDetectorView.add_counts. The
\* field calls remembers the counts of the most recent calls, newest last.
add_counts(data) ==
    /\ det.stage = "ready"
    /\ det.cls = "Detector" =>
          \A i \in 1..det.size : det.data[i] + bincount(det, data)[i] <= MaxCounts
    /\ LET counts == bincount(det, data)
       IN  IF det.cls = "Detector"
           THEN det' = [det EXCEPT !.data = add(det.data, counts),
                                   !.error = "none", !.cleared = FALSE]
           ELSE IF det.window = 0
                THEN det' = [det EXCEPT !.error = "IndexError"]
                ELSE LET slot == det.current + 1
                         cache1 == sub(det.cache, det.history[slot])
                     IN  det' = [det EXCEPT
                                   !.cache = add(cache1, counts),
                                   !.history[slot] = counts,
                                   !.current = (det.current + 1) % det.window,
                                   !.calls = IF Len(det.calls) < det.window
                                             THEN Append(det.calls, counts)
                                             ELSE Append(Tail(det.calls), counts),
                                   !.error = "none", !.cleared = FALSE]
    /\ UNCHANGED <<got, streamingVars, tofVars, lutVars, scicatVars, pruneVars>>

\* Detector.clear_counts, which RollingDetectorView inherits.
clear_counts ==
    /\ det.stage = "ready"
    /\ det' = [det EXCEPT !.data = [i \in 1..det.size |-> det.data[i] * 0],
                          !.error = "none", !.cleared = TRUE]
    /\ UNCHANGED <<got, streamingVars, tofVars, lutVars, scicatVars, pruneVars>>

\* RollingDetectorView.get(window); the caller keeps the array it returns,
\* which is the _cache object itself or a new array.
get(window_) ==
    /\ det.stage = "ready"
    /\ det.cls = "RollingDetectorView"
    /\ IF get_raises(det, window_)
       THEN /\ det' = [det EXCEPT !.error = "ValueError"]
            /\ UNCHANGED got
       ELSE /\ det' = [det EXCEPT !.error = "none"]
            /\ got' = <<[window |-> window_,
                         is_cache |-> get_is_cache(det, window_),
                         values |-> IF get_is_cache(det, window_) THEN <<>>
                                    ELSE get_data(det, window_),
                         snapshot |-> get_data(det, window_),
                         mutated |-> FALSE]>>
    /\ UNCHANGED <<streamingVars, tofVars, lutVars, scicatVars, pruneVars>>

\* The caller adds one count to the first pixel of the array it holds.
MutateArray ==
    /\ det.stage = "ready"
    /\ got # <<>>
    /\ ~got[1].mutated
    /\ array_values(got[1])[1] < MaxCounts
    /\ IF got[1].is_cache
       THEN /\ det' = [det EXCEPT !.cache[1] = @ + 1]
            /\ got' = [got EXCEPT ![1].mutated = TRUE]
       ELSE /\ got' = [got EXCEPT ![1].mutated = TRUE, ![1].values[1] = @ + 1]
            /\ UNCHANGED det
    /\ UNCHANGED <<streamingVars, tofVars, lutVars, scicatVars, pruneVars>>

NextLive ==
    \/ \E dn \in DetectorNumbers : Detector(dn)
    \/ \E dn \in DetectorNumbers, w \in Windows : RollingDetectorView(dn, w)
    \/ \E data \in Datas : add_counts(data)
    \/ clear_counts
    \* get with no window, or with one that may be out of range
    \/ \E w \in {None} \cup {Some(n) : n \in Windows \cup {-1, 4}} : get(w)

\* A detector or a rolling view is made and used through its methods.
SpecLive == InitLive /\ [][NextLive]_vars

\* The same, the caller also writing into the arrays get returned.
SpecLiveAlias == InitLive /\ [][NextLive \/ MutateArray]_vars

\* ------------------------------------------- workflow.py: pruning a workflow
\* A node of the workflow graph is a type: <<name>>, <<name, run type>> or
\* <<name, run type, monitor type>>.

\* The constraints of the type variables RunType and MonitorType.
RunTypes == {"SampleRun", "BackgroundRun", "EmptyBeamRun"}
MonitorTypes == {"Monitor1", "Monitor2"}

\* The graph of the workflow pruned: A[run] feeds B, C, D and the monitor data
\* M of the run; E combines B[SampleRun], B[BackgroundRun] and C[SampleRun].
Nodes ==
    {<<n, r>> : n \in {"A", "B", "C", "D"}, r \in RunTypes}
        \cup {<<"M", r, m>> : r \in RunTypes, m \in MonitorTypes}
        \cup {<<"E">>}

Edges ==
    {<<<<"A", r>>, <<n, r>>>> : n \in {"B", "C", "D"}, r \in RunTypes}
        \cup {<<<<"A", r>>, <<"M", r, m>>>> : r \in RunTypes, m \in MonitorTypes}
        \cup {<<<<"B", "SampleRun">>, <<"E">>>>, <<<<"B", "BackgroundRun">>, <<"E">>>>,
              <<<<"C", "SampleRun">>, <<"E">>>>}

\* The nodes of graph with an edge into a node of S.
predecessors(graph, S) ==
    {e[1] : e \in {e \in Edges : e[1] \in graph /\ e[2] \in graph /\ e[2] \in S}}

RECURSIVE reaching(_, _)
reaching(graph, S) ==
    IF predecessors(graph, S) \subseteq S THEN S
    ELSE reaching(graph, S \cup predecessors(graph, S))

\* nx.ancestors(graph, t), for a node t of the graph.
nx_ancestors(graph, t) == reaching(graph, {t}) \ {t}

\* _monitor_types_or_default
monitor_types_or_default(monitor_types) ==
    IF monitor_types = None THEN MonitorTypes ELSE monitor_types[1]

\* The types t that _add_ancestors visits for the three kinds of targets.
plain_targets(targets) == IF targets = None THEN {} ELSE targets[1]
run_targets(targets_per_run, run_types) ==
    IF targets_per_run = None THEN {}
    ELSE {<<n, r>> : n \in targets_per_run[1], r \in run_types}
monitor_targets(targets_per_run_and_monitor, run_types, monitor_types) ==
    IF targets_per_run_and_monitor = None THEN {}
    ELSE {<<n, r, m>> : n \in targets_per_run_and_monitor[1], r \in run_types,
                        m \in monitor_types_or_default(monitor_types)}

\* _add_ancestors over a set of types: the types and their ancestors.
add_ancestors(graph, ts) == UNION {nx_ancestors(graph, t) \cup {t} : t \in ts}

\* The argument checks of prune_nexus_domain_types without the one for
\* monitor_types.
arguments_rejected_run_only(targets_per_run, targets_per_run_and_monitor, run_types, monitor_types) ==
    run_types # None /\ targets_per_run = None

\* Whether the argument checks of prune_nexus_domain_types raise ValueError.
arguments_rejected(targets_per_run, targets_per_run_and_monitor, run_types, monitor_types) ==
    \/ run_types # None /\ targets_per_run = None
    \/ monitor_types # None /\ targets_per_run_and_monitor = None

\* prune_nexus_domain_types: the exception raised, or "none", and the nodes
\* of the workflow's graph after the call.
prune_result(graph, targets, targets_per_run, targets_per_run_and_monitor, run_types, monitor_types) ==
    IF arguments_rejected(targets_per_run, targets_per_run_and_monitor,
                          run_types, monitor_types)
    THEN [raised |-> "ValueError", graph |-> graph]
    ELSE IF ~(plain_targets(targets) \subseteq graph)
    THEN [raised |-> "NetworkXError", graph |-> graph]
    ELSE IF run_types = None
            /\ (targets_per_run # None \/ targets_per_run_and_monitor # None)
    THEN \* list(None), or itertools.product over None
         [raised |-> "TypeError", graph |-> graph]
    ELSE LET rts == IF run_types = None THEN {} ELSE run_types[1]
             ts == run_targets(targets_per_run, rts)
                     \cup monitor_targets(targets_per_run_and_monitor, rts, monitor_types)
         IN  IF ~(ts \subseteq graph)
             THEN [raised |-> "NetworkXError", graph |-> graph]
             ELSE [raised |-> "none",
                   graph |-> graph \ (graph \ add_ancestors(graph,
                                                    plain_targets(targets) \cup ts))]

InitPrune ==
    /\ StreamingIdle
    /\ TofIdle
    /\ LutIdle
    /\ ScicatIdle
    /\ LiveIdle
    /\ prune = [stage |-> "new", graph |-> Nodes]

\* prune_nexus_domain_types(workflow, targets=..., ...), on the workflow as the
\* calls before left it.
prune_nexus_domain_types(targets, targets_per_run, targets_per_run_and_monitor, run_types, monitor_types) ==
    /\ prune.stage \in {"new", "called"}
    /\ LET res == prune_result(prune.graph, targets, targets_per_run,
                               targets_per_run_and_monitor, run_types, monitor_types)
       IN  prune' = [stage |-> "called",
                     graph |-> res.graph,
                     raised |-> res.raised,
                     targets |-> targets,
                     targets_per_run |-> targets_per_run,
                     targets_per_run_and_monitor |-> targets_per_run_and_monitor,
                     run_types |-> run_types,
                     monitor_types |-> monitor_types]
    /\ UNCHANGED <<streamingVars, tofVars, lutVars, scicatVars, liveVars>>

\* A call with each argument None or one of a few values.
NextPrune ==
    \E t \in {None, Some({<<"E">>})},
       tr \in {None, Some({"A"}), Some({"B", "C"})},
       trm \in {None, Some({"M"})},
       rt \in {None, Some({"SampleRun"}), Some({"SampleRun", "BackgroundRun"})},
       mt \in {None, Some({"Monitor1"})} :
        prune_nexus_domain_types(t, tr, trm, rt, mt)

\* A workflow is pruned by a series of calls.
SpecPrune == InitPrune /\ [][NextPrune]_vars

\* ------------------------------------------------------------- claims
\* The contents of what a read of the value property gives in this state.
CurrentValue ==
    LET res == IF kind = "eternal"
               THEN EternalValue(heap, eValue)
               ELSE RollingValue(heap, rValues)
    IN IF res[2] = NoneId THEN NoneVal
       ELSE IF res[2] = RaisedId THEN RaisedVal
       ELSE res[1][res[2]].c

\* C7: after pushing v1..vn (n >= 1) into an EternalAccumulator, its value
\* is v1 + ... + vn, whatever the caller does to its own objects meanwhile.
C7_EternalSum ==
    (kind = "eternal" /\ log # <<>>) => CurrentValue = SumSeq(log)

C7_Witness ==
    /\ kind = "eternal"
    /\ Len(log) = MaxPush
    /\ nMut > 0
    /\ CurrentValue = SumSeq(log)

C9_ValueIsCopy ==
    [][(nMut' # nMut /\ \E o \in returned \ pushed : heap'[o] # heap[o])
         => CurrentValue' = CurrentValue]_vars

C9_Witness ==
    /\ nMut > 0
    /\ \E o \in returned \ pushed : heap[o].c > SumSeq(log)

\* C10: after push(v) no accumulator holds a reference to the caller's
\* object: mutating a caller's object in place never changes the value.
C10_NoAliasAfterPush ==
    [][nMut' # nMut => CurrentValue' = CurrentValue]_vars

\* The providers of the target graph's nodes that depend on no dynamic key.
StaticProviders ==
    LET wf == TargetWorkflow(target_keys, dynamic_keys)
    IN {k \in ProviderKeys :
          wf[k].kind = "provider" /\ k \notin find_descendants(wf, dynamic_keys)}

\* The dynamic keys the value at key a is computed from: a itself when it is
\* a dynamic key, and the dynamic keys upstream of it.
DynamicInputs(a) ==
    ({a} \cup Ancestors(process_chunk_workflow, a)) \cap dynamic_keys

\* C1: when accumulate accepts a chunk, every accumulator whose dynamic
\* inputs are all in the chunk gets exactly one push, of the value computed
\* from this chunk, and every other accumulator is left unchanged.
C1_PushPerSatisfiedAccumulator ==
    [][nAcc' = nAcc + 1 =>
        \A a \in DOMAIN accumulators :
            IF DynamicInputs(a) # {} /\ DynamicInputs(a) \subseteq DOMAIN last'.chunks
            THEN accumulators'[a] = AccPush(accumulators[a], Eval(process_chunk_workflow', a))
            ELSE accumulators'[a] = accumulators[a]]_vars

\* C2: the provider of every node that depends on no dynamic key is
\* evaluated exactly once by the constructor and never by accumulate.
C2_StaticEvaluatedOnce ==
    pc = "ready" => \A k \in StaticProviders : evalCtor[k] = 1 /\ evalAcc[k] = 0

\* C3: every node that depends on no dynamic key (target keys included) is
\* frozen at construction, so that no finalize call evaluates its provider.
C3_StaticNeverReevaluated ==
    pc = "ready" => \A k \in StaticProviders : evalFin[k] = 0

\* C4: accumulate raises ValueError when the chunk holds a key that was not
\* declared dynamic; no accumulator is pushed to and neither workflow is
\* written.
C4_NonDynamicRejected ==
    [][(last'.op = "accumulate" /\ DOMAIN last'.chunks \ dynamic_keys # {})
         => /\ last'.raised = "non_dynamic"
            /\ accumulators' = accumulators
            /\ process_chunk_workflow' = process_chunk_workflow
            /\ finalize_workflow' = finalize_workflow]_vars

C4_Witness ==
    /\ last.op = "accumulate"
    /\ last.raised = "non_dynamic"
    /\ nAcc > 0
    /\ \E a \in DOMAIN accumulator_dependencies :
          /\ accumulator_dependencies[a] # {}
          /\ accumulator_dependencies[a] \subseteq DOMAIN last.chunks
          /\ AccValue(accumulators[a]) > 0

\* C5: accumulate raises ValueError when the chunk holds some but not all
\* of the dynamic keys an accumulator depends on; no accumulator at all is
\* pushed to and neither workflow is written.
C5_PartialRejected ==
    [][(/\ last'.op = "accumulate"
        /\ \E a \in DOMAIN accumulators :
              LET deps == Ancestors(process_chunk_workflow, a) \cap dynamic_keys
              IN deps \cap DOMAIN last'.chunks # {} /\ deps \ DOMAIN last'.chunks # {})
         => /\ last'.raised # "no"
            /\ accumulators' = accumulators
            /\ process_chunk_workflow' = process_chunk_workflow
            /\ finalize_workflow' = finalize_workflow]_vars

C5_Witness ==
    /\ last.op = "accumulate"
    /\ last.raised = "partial"
    /\ nAcc > 0
    /\ \E a \in DOMAIN accumulator_dependencies :
          /\ accumulator_dependencies[a] # {}
          /\ accumulator_dependencies[a] \subseteq DOMAIN last.chunks
          /\ AccValue(accumulators[a]) > 0

\* C6: finalize leaves every accumulator as it was, and a finalize that
\* directly follows another returns the same result.
C6_FinalizeNoSideEffect ==
    [][nFin' = nFin + 1 =>
        /\ accumulators' = accumulators
        /\ last.op = "finalize" => last'.result = last.result]_vars

C6_Witness ==
    /\ last.op = "finalize"
    /\ last.again
    /\ nAcc > 0
    /\ \E a \in DOMAIN accumulators : AccValue(accumulators[a]) > 0
    /\ \E t \in target_keys : last.result[t] > 0

\* The state of the accumulator: EMPTY while it holds nothing.
AccState ==
    IF \/ kind = "eternal" /\ eValue = NoneId
       \/ kind = "rolling" /\ rValues = <<>>
    THEN "EMPTY" ELSE "ACCUMULATING"

C12_BypassOnlyWhenAllowed ==
    [][/\ (last'.op = "accumulate" /\ finalize_workflow' # finalize_workflow)
            => allow_bypass
       /\ (nAcc' = nAcc + 1 /\ allow_bypass)
            => \A k \in DOMAIN last'.chunks :
                   finalize_workflow'[k] = Value(last'.chunks[k])
       /\ (pc = "ready" /\ ~allow_bypass /\ finalize_workflow' # finalize_workflow)
            => /\ last'.op = "finalize"
               /\ \A k \in Keys :
                      finalize_workflow'[k] # finalize_workflow[k]
                          => /\ k \in DOMAIN accumulators
                             /\ finalize_workflow'[k] = Value(AccValue(accumulators[k]))
      ]_vars

C12_Witness ==
    /\ ~allow_bypass
    /\ nAcc > 0
    /\ last.op = "finalize"
    /\ \E t \in target_keys : last.result[t] > 0
    /\ \A k \in dynamic_keys \ DOMAIN accumulators : finalize_workflow[k] = Value(NoneVal)
    /\ \E k \in dynamic_keys \ DOMAIN accumulators :
           process_chunk_workflow[k] # Value(NoneVal)

\* The frame period of the pipeline in this state.
FramePeriod == frame_period(tof.PulsePeriod, tof.PulseStride)

\* C13: every frame-folded time of arrival t satisfies
\* pivot <= t < pivot + frame_period, whether the unwrapped time is earlier or
\* later than the pivot and however many frames it is away from it.
C13_FoldedWithinFrame ==
    tof.stage = "folded" =>
        \A i \in 1..Len(tof.FrameFoldedTimeOfArrival) :
            /\ tof.PivotTimeAtDetector <= tof.FrameFoldedTimeOfArrival[i]
            /\ tof.FrameFoldedTimeOfArrival[i] < tof.PivotTimeAtDetector + FramePeriod

C13_Witness ==
    /\ tof.stage = "folded"
    /\ tof.PulseStride > 1
    /\ \E i \in 1..NEvents : tof.UnwrappedTimeOfArrival[i] < tof.PivotTimeAtDetector
    /\ \E i \in 1..NEvents :
           tof.UnwrappedTimeOfArrival[i] >= tof.PivotTimeAtDetector + FramePeriod
    /\ \A i \in 1..NEvents :
           /\ tof.PivotTimeAtDetector <= tof.FrameFoldedTimeOfArrival[i]
           /\ tof.FrameFoldedTimeOfArrival[i] < tof.PivotTimeAtDetector + FramePeriod

\* The index of the frame-period window, counted from the pivot, that holds
\* the unwrapped time of arrival of event i.
FrameWindow(i) == (tof.UnwrappedTimeOfArrival[i] - tof.PivotTimeAtDetector) \div FramePeriod

\* C14 as stated: two events whose arrival times differ by a whole number
\* of pulse periods and lie in the same frame-period window have the same
\* folded time of arrival.
C14_PulseShiftInvariant ==
    (tof.stage = "folded" /\ tof.RawData.binned) =>
        \A i, j \in 1..NEvents :
            (/\ tof.RawData.events[i].t = tof.RawData.events[j].t
             /\ FrameWindow(i) = FrameWindow(j))
                => tof.FrameFoldedTimeOfArrival[i] = tof.FrameFoldedTimeOfArrival[j]

\* C14, amended: two events whose arrival times differ by k pulse periods
\* have the same folded time of arrival exactly when k is a multiple of
\* pulse_stride, that is when they differ by a whole number of frame periods.
C14_FrameShiftInvariant ==
    (tof.stage = "folded" /\ tof.RawData.binned) =>
        \A i, j \in 1..NEvents :
            tof.RawData.events[i].t = tof.RawData.events[j].t
                => (tof.FrameFoldedTimeOfArrival[i] = tof.FrameFoldedTimeOfArrival[j]
                    <=> (tof.RawData.events[i].pulse - tof.RawData.events[j].pulse)
                            % tof.PulseStride = 0)

C14_Witness ==
    /\ tof.stage = "folded"
    /\ tof.RawData.binned
    /\ tof.PulseStride > 1
    /\ tof.RawData.events[1].t = tof.RawData.events[2].t
    /\ tof.RawData.events[2].pulse = tof.RawData.events[1].pulse + tof.PulseStride
    /\ tof.FrameFoldedTimeOfArrival[1] = tof.FrameFoldedTimeOfArrival[2]

\* C19: when the stride offset is None, computing the unwrapped time of
\* arrival does not raise and gives what some integer offset below
\* pulse_stride gives.
C19_OffsetInferred ==
    (tof.stage \notin {"idle", "new", "params"} /\ tof.PulseStrideOffset = None) =>
        /\ tof.stage # "raised"
        /\ \E o \in 0..(tof.PulseStride - 1) :
              tof.UnwrappedTimeOfArrival =
                  unwrapped_time_of_arrival(tof.RawData, Some(o), tof.PulsePeriod).toa

\* C15: in every table returned, each distance bin's entry at the last
\* event_time_offset coordinate (the frame period) is the entry at the first
\* coordinate (0), masked or not.
C15_LastColumnIsFirst ==
    lut.stage = "returned" =>
        LET last_t == Len(lut.table.event_time_offset)
        IN /\ lut.table.event_time_offset[1] = 0
           /\ lut.table.event_time_offset[last_t]
                  = time_scale(last_t - 1) * frame_period(lut.pulse_period, lut.pulse_stride)
           /\ \A b \in 1..Len(lut.table.data) :
                  /\ Len(lut.table.data[b]) = last_t
                  /\ lut.table.data[b][last_t] = lut.table.data[b][1]

C15_Witness ==
    /\ lut.stage = "returned"
    /\ \E b \in 1..Len(lut.table.data) :
           /\ lut.table.data[b][1].value = NaN
           /\ lut.table.data[b][1].variance # NaN
           /\ lut.table.data[b][2].value # NaN
    /\ \E b \in 1..Len(lut.table.data) :
           /\ lut.table.data[b][1].value # NaN
           /\ lut.table.data[b][1] # lut.table.data[b][2]

\* C16 as stated: the table's distance axis reaches at least one resolution
\* step below Lmin and at least one resolution step above Lmax.
C16_FullStepBothSides ==
    lut.stage = "returned" =>
        /\ lut.table.distance[1] <= lut.ltotal_range[1] - lut.distance_resolution
        /\ lut.table.distance[Len(lut.table.distance)]
               >= lut.ltotal_range[2] + lut.distance_resolution

\* C16, amended: the bin centres of the distance axis reach one and a half
\* resolution steps below Lmin and at least half a step above Lmax; the bin
\* edges reach two steps below Lmin and at least one step above Lmax.
C16_HalfStepAbove ==
    lut.stage = "returned" =>
        LET d == lut.table.distance
            edges == lut.distance_bins
            sd == lut.simulation.distance
            r == lut.distance_resolution
        IN /\ 2 * d[1] = 2 * lut.ltotal_range[1] - 3 * r
           /\ 2 * d[Len(d)] >= 2 * lut.ltotal_range[2] + r
           /\ edges[1] + sd = lut.ltotal_range[1] - 2 * r
           /\ edges[Len(edges)] + sd >= lut.ltotal_range[2] + r

C16_Witness ==
    /\ lut.stage = "returned"
    /\ lut.ltotal_range[2] > lut.ltotal_range[1]
    /\ 2 * lut.table.distance[Len(lut.table.distance)]
           = 2 * lut.ltotal_range[2] + lut.distance_resolution

\* C17: for every L with Lmin <= L <= Lmax a returned table has a bin centre
\* at or below L and one at or above L, its centres being one resolution
\* step apart; it has at least two distance bins, also when Lmin = Lmax.
C17_RangeCovered ==
    lut.stage = "returned" =>
        LET d == lut.table.distance
        IN /\ Len(d) >= 2
           /\ \A i \in 1..(Len(d) - 1) : d[i + 1] = d[i] + lut.distance_resolution
           /\ \A L \in lut.ltotal_range[1]..lut.ltotal_range[2] :
                  /\ \E i \in 1..Len(d) : d[i] <= L
                  /\ \E i \in 1..Len(d) : d[i] >= L

C17_Witness ==
    /\ lut.stage = "returned"
    /\ lut.ltotal_range[1] = lut.ltotal_range[2]
    /\ Len(lut.table.distance) >= 2
    /\ lut.table.distance[1] < lut.ltotal_range[1]
    /\ lut.table.distance[Len(lut.table.distance)] > lut.ltotal_range[1]

\* The distance bins (pairs of edges) of a sequence of edges.
BinsOf(edges) == [k \in 1..(Len(edges) - 1) |-> <<edges[k], edges[k + 1]>>]

\* C18: for a simulation of at least one neutron the computation returns,
\* every chunk of the loop holds a distance bin, and the chunks' bins, one
\* chunk after the other, are the distance bins, each once and in order.
C18_ChunksPartition ==
    (lut.stage \in {"returned", "raised"} /\ lut.simulation.neutrons # <<>>) =>
        /\ lut.stage = "returned"
        /\ \A i \in 1..Len(lut.chunks) : Len(lut.chunks[i]) >= 2
        /\ Concat([i \in 1..Len(lut.chunks) |-> BinsOf(lut.chunks[i])])
               = BinsOf(lut.distance_bins)

\* C20: at most one thread at a time is inside the fetch-and-download
\* section for the key.
C20_MutualExclusion == Cardinality(InSection) <= 1

\* The threads inside the with block, holding the Lock they entered with.
InWith == {t \in Threads : thread[t].pc \in {"get_dataset", "download_files", "pop", "exit"}}

\* C21: a Lock is held only by a thread that is inside the with block (it is
\* released when the holder's calls return or raise), and every thread
\* waiting for its Lock eventually gets it.
C21_LockReleased ==
    /\ [](\A l \in 1..Len(lock_owner) : lock_owner[l] # 0 => lock_owner[l] \in InWith)
    /\ \A t \in Threads : (thread[t].pc = "with") ~> (thread[t].pc # "with")

C21_Witness ==
    \E t1, t2 \in Threads :
        /\ t1 # t2
        /\ thread[t1].lock = thread[t2].lock
        /\ thread[t1].pc = "raised"
        /\ thread[t2].pc \in {"returned", "raised"}
        /\ \E t3 \in Threads : thread[t3].lock = thread[t1].lock /\ thread[t3].pc = "get_dataset"

\* C28: when no transfer raises, no call raises: _locks.pop(key) never
\* fails with KeyError.
C28_NoKeyError ==
    (\A t \in Threads : thread[t].pc # "raised") =>
        \A t \in Threads : thread[t].pc # "KeyError"

\* The per-pixel sum of the counts of the w most recent add_counts calls.
SumOfRecent(w) ==
    LET n == Len(det.calls)
    IN  sum_window(det.calls, IF w >= n THEN 0 ELSE n - w, n, det.size)

\* C22: after any sequence of add_counts calls on a RollingDetectorView with
\* maximum window W, get(w) for 0 <= w <= W returns the per-pixel sum of the
\* counts of the w most recent add_counts calls (of all calls if there were
\* fewer), and get() equals get(W).
C22_RollingSum ==
    (det.stage = "ready" /\ det.cls = "RollingDetectorView") =>
        /\ \A w \in 0..det.window :
              /\ ~get_raises(det, Some(w))
              /\ get_data(det, Some(w)) = SumOfRecent(w)
        /\ get_data(det, None) = get_data(det, Some(det.window))
        /\ got # <<>> => got[1].values = IF got[1].is_cache THEN <<>> ELSE got[1].snapshot

\* get(2) was called on a view of window 3 whose history has wrapped round, and
\* the two most recent calls, one at the end and one at the start of the
\* history, both counted events.
C22_Witness ==
    /\ det.stage = "ready"
    /\ det.cls = "RollingDetectorView"
    /\ det.window = 3
    /\ det.current = 1
    /\ Len(det.calls) = 3
    /\ det.calls[2] # zeros(det.size)
    /\ det.calls[3] # zeros(det.size)
    /\ got # <<>>
    /\ got[1].window = Some(2)
    /\ got[1].snapshot = add(det.calls[2], det.calls[3])

\* Whether the numbers are exactly start, start + 1, ..., start + n - 1.
consecutive(detector_number) ==
    \A i \in 1..Len(detector_number) : detector_number[i] = detector_number[1] + i - 1

\* C23: constructing a Detector or a RollingDetectorView raises ValueError
\* unless the flattened detector numbers are sorted and consecutive.
C23_ConsecutiveOrValueError ==
    (det.stage \in {"ready", "raised"} /\ ~consecutive(det.detector_number)) =>
        (det.stage = "raised" /\ det.error = "ValueError")

\* C29: an array get returned keeps the contents it had when it was returned
\* unless the caller writes into it, and what get returns stays the sum of the
\* recent calls whatever the caller does to the arrays returned earlier.
C29_GetIsSnapshot ==
    (det.stage = "ready" /\ det.cls = "RollingDetectorView") =>
        /\ (got # <<>> /\ ~got[1].mutated) => array_values(got[1]) = got[1].snapshot
        /\ \A w \in 0..det.window : get_data(det, Some(w)) = SumOfRecent(w)
        /\ get_data(det, None) = SumOfRecent(det.window)

\* C30: after clear_counts and until the next add_counts the counts of the
\* detector are all zero, and so is what get() of a RollingDetectorView returns.
C30_ClearedIsZero ==
    (det.stage = "ready" /\ det.cleared) =>
        /\ det.data = zeros(det.size)
        /\ det.cls = "RollingDetectorView" => get_data(det, None) = zeros(det.size)

\* Whether the last call gave run_types without targets_per_run, or
\* monitor_types without targets_per_run_and_monitor.
TypesWithoutTargets(p) ==
    \/ p.run_types # None /\ p.targets_per_run = None
    \/ p.monitor_types # None /\ p.targets_per_run_and_monitor = None

\* C24: prune_nexus_domain_types raises ValueError, and removes no node from
\* the workflow, when run_types is given without targets_per_run or
\* monitor_types without targets_per_run_and_monitor.
C24_TypesNeedTargets ==
    [][(prune' # prune /\ TypesWithoutTargets(prune')) =>
          (prune'.raised = "ValueError" /\ prune'.graph = prune.graph)]_vars

\* monitor_types was given without targets_per_run_and_monitor, in a call that
\* would otherwise have removed nodes, and the call raised.
C24_Witness ==
    /\ prune.stage = "called"
    /\ prune.monitor_types # None
    /\ prune.targets_per_run_and_monitor = None
    /\ prune.targets_per_run # None
    /\ prune.run_types # None
    /\ prune.raised = "ValueError"
    /\ prune.graph = Nodes

\* C25: when run_types is not given, the targets of targets_per_run and of
\* targets_per_run_and_monitor and their ancestors are kept for every run type.
C25_AllRunTypesByDefault ==
    [][(/\ prune' # prune
        /\ prune'.run_types = None
        /\ ~TypesWithoutTargets(prune')
        /\ prune'.targets_per_run # None \/ prune'.targets_per_run_and_monitor # None)
       => LET kept == run_targets(prune'.targets_per_run, RunTypes)
                        \cup monitor_targets(prune'.targets_per_run_and_monitor, RunTypes,
                                             prune'.monitor_types)
          IN  /\ prune'.raised = "none"
              /\ add_ancestors(prune.graph, kept \cap prune.graph) \subseteq prune'.graph]_vars

\* The process-chunk workflow with the chunk's values and none of the dynamic
\* values of earlier chunks.
SameCallWorkflow(chunk) ==
    SetValues(SetValues(process_chunk_workflow, [k \in dynamic_keys |-> NoneVal]), chunk)

\* C26: every value pushed into an accumulator is computed from the dynamic
\* values of the same accumulate call only: computing it with every dynamic
\* value of earlier chunks forgotten gives the same value, and does not fail.
C26_PushFromSameCall ==
    [][(last'.op = "accumulate" /\ nAcc' = nAcc + 1) =>
          \A a \in DOMAIN accumulators :
              accumulators'[a] # accumulators[a] =>
                  /\ Eval(SameCallWorkflow(last'.chunks), a) # RaisedVal
                  /\ accumulators'[a] =
                         AccPush(accumulators[a], Eval(SameCallWorkflow(last'.chunks), a))]_vars

\* A chunk holding B alone was accumulated into FB while the workflow still
\* remembers the value of A that an earlier chunk brought.
C26_Witness ==
    /\ pc = "ready"
    /\ last.op = "accumulate"
    /\ last.raised = "no"
    /\ DOMAIN last.chunks = {"B"}
    /\ "A" \in dynamic_keys
    /\ process_chunk_workflow["A"] = Value(2)
    /\ "FB" \in DOMAIN accumulators
    /\ accumulators["FB"] # NewAccumulator

\* C27: an accumulate call that raises, for whatever reason, has changed no
\* accumulator.
C27_AllOrNothing ==
    [][(last'.op = "accumulate" /\ last'.raised # "no") =>
          accumulators' = accumulators]_vars

====
